---- MODULE Spec2Model ----
(***************************************************************************)
(* A model of the covid_analysis package: the pandas DataFrame held by     *)
(* COVIDDataCleaner / DataSummary, the cleaner's in-place operations, the  *)
(* summary queries, and the Worldometer scraper / file downloader.         *)
(*                                                                         *)
(* A DataFrame is a sequence of rows; a row carries its index label and a  *)
(* function from the column names to cell values.  A cell value is a       *)
(* tagged record: null (NaN/None), int (a number), str (a text, e.g. a raw *)
(* 'YYYY-MM-DD' date, an iso code, a location name; ordered by v) or date  *)
(* (a parsed Timestamp).                                                   *)
(***************************************************************************)
EXTENDS Integers, Sequences, FiniteSets, TLC

VARIABLES
    df,             \* self.df: the rows of the DataFrame, in stored order
    cols,           \* self.df.columns, as a set of names
    df0,            \* the rows of the DataFrame the object was constructed with
    cols0,          \* the columns of the DataFrame the object was constructed with
    copy_on_write,  \* whether the installed pandas runs with Copy-on-Write (pandas >= 3)
    net,            \* what requests.get(url) meets: a response or a network failure
    disk,           \* the files written so far: name -> content
    result,         \* what the last call returned or raised
    ncalls          \* number of calls made on the object so far

vars == <<df, cols, df0, cols0, copy_on_write, net, disk, result, ncalls>>

----------------------------------------------------------------------------
(* Bounds of the model *)

MaxRows == 3

MaxCalls == 2

MaxFrameRows == 2

MaxDataRows == 2

----------------------------------------------------------------------------
(* Cell values *)

Null == [t |-> "null", v |-> 0]

Num(n) == [t |-> "int", v |-> n]

Str(n) == [t |-> "str", v |-> n]

Date(n) == [t |-> "date", v |-> n]

IsNull(x) == x.t = "null"

SetMax(S) == CHOOSE x \in S : \A y \in S : y <= x

SetMin(S) == CHOOSE x \in S : \A y \in S : x <= y

Range(s) == {s[i] : i \in 1..Len(s)}

\* df[column] as the sequence of its cells
Column(rows, c) == [i \in 1..Len(rows) |-> rows[i].data[c]]

\* df[df[column] == value]: boolean-mask selection, rows keep order and labels
\* (NaN == value is False)
FilterEq(rows, c, value) == SelectSeq(rows, LAMBDA r : r.data[c] = value)

\* the default RangeIndex 0..n-1 over a sequence of cell functions
Frame(datas) == [i \in 1..Len(datas) |-> [label |-> i - 1, data |-> datas[i]]]

\* the sequences over S of length at most n
SeqsUpTo(S, n) == UNION {[1..m -> S] : m \in 0..n}

NoResult == [op |-> "none"]

\* no call was made on the object yet
Fresh == ncalls = 0

\* the object may take another call
MoreCalls == ncalls < MaxCalls

NoNet == [kind |-> "none"]

----------------------------------------------------------------------------
(* DataSummary *)

Ret(op, arg, out) == [op |-> op, arg |-> arg, exc |-> "none", out |-> out]

Raise(op, arg, exc) == [op |-> op, arg |-> arg, exc |-> exc, out |-> Null]

\* an exception with what it carries
RaiseWith(op, arg, exc, info) == [op |-> op, arg |-> arg, exc |-> exc, out |-> info]

\* a read-only call: the DataFrame, the environment and the network are untouched
Query(r) ==
    /\ result' = r
    /\ ncalls' = ncalls + 1
    /\ UNCHANGED <<df, cols, df0, cols0, copy_on_write, net, disk>>

\* Series.isnull().sum()
NullCount(cells) == Cardinality({i \in 1..Len(cells) : IsNull(cells[i])})

\* Series.nunique(): distinct non-null values
NUnique(cells) == Cardinality(Range(cells) \ {Null})

\* the dtype pandas holds a column in
Dtype(cells) ==
    CASE \E i \in 1..Len(cells) : cells[i].t = "str"  -> "object"
      [] \E i \in 1..Len(cells) : cells[i].t = "date" -> "datetime64[ns]"
      [] \E i \in 1..Len(cells) : cells[i].t = "null" -> "float64"
      [] Len(cells) = 0                               -> "object"
      [] OTHER                                        -> "int64"

get_basic_info ==
    Query(Ret("get_basic_info", Null,
              [rows |-> Len(df), columns |-> Cardinality(cols), names |-> cols,
               dtypes |-> [c \in cols |-> Dtype(Column(df, c))]]))

get_missing_values_info ==
    LET missing_values == [c \in cols |-> NullCount(Column(df, c))]
    IN  Query(Ret("get_missing_values_info", Null,
                  [c \in {d \in cols : missing_values[d] > 0} |-> missing_values[c]]))

get_unique_values_info(column_names) ==
    Query(IF column_names \subseteq cols
          THEN Ret("get_unique_values_info", column_names,
                   [c \in column_names |-> NUnique(Column(df, c))])
          ELSE Raise("get_unique_values_info", column_names, "KeyError"))

\* a text pandas can read as a date
Parseable(x) == x.t = "str" => x.v > 0

\* pd.to_datetime on one cell: NaN becomes NaT, a text is parsed, a Timestamp
\* is kept, a number counts nanoseconds since the epoch
ToDatetime(x) == IF IsNull(x) THEN Null ELSE Date(x.v)

\* a date_range that stores the parsed dates back into the frame
date_range_inplace ==
    LET cells == Column(df, "date")
        D == {ToDatetime(cells[i]).v : i \in {j \in 1..Len(cells) : ~IsNull(cells[j])}}
    IN  /\ df' = [i \in 1..Len(df) |->
                    [df[i] EXCEPT !.data["date"] = ToDatetime(@)]]
        /\ result' = IF D = {} THEN Ret("date_range", Null, <<Null, Null>>)
                      ELSE Ret("date_range", Null, <<Date(SetMin(D)), Date(SetMax(D))>>)
        /\ ncalls' = ncalls + 1
        /\ UNCHANGED <<cols, df0, cols0, copy_on_write, net, disk>>

date_range ==
    LET cells == Column(df, "date")
        D == {ToDatetime(cells[i]).v : i \in {j \in 1..Len(cells) : ~IsNull(cells[j])}}
    IN  Query(IF "date" \notin cols THEN Raise("date_range", Null, "KeyError")
              ELSE IF \E i \in 1..Len(cells) : ~Parseable(cells[i])
                   THEN Raise("date_range", Null, "ValueError")
              ELSE IF D = {} THEN Ret("date_range", Null, <<Null, Null>>)
              ELSE Ret("date_range", Null, <<Date(SetMin(D)), Date(SetMax(D))>>))

\* country_data[['date', measure]].set_index('date'): the matching rows in
\* stored order, each as its date and its value of the measure
trend_over_time(country_code, measure) ==
    LET country_data == FilterEq(df, "iso_code", country_code)
    IN  Query(IF {"date", measure} \subseteq cols
              THEN Ret("trend_over_time", <<country_code, measure>>,
                       [i \in 1..Len(country_data) |->
                            [date |-> country_data[i].data["date"],
                             value |-> country_data[i].data[measure]]])
              ELSE Raise("trend_over_time", <<country_code, measure>>, "KeyError"))

\* Series.max(): skipna=True, NaN when the series is empty or all-NaN
SeriesMax_fillzero(cells) ==
    LET S == {cells[i].v : i \in {j \in 1..Len(cells) : cells[j].t = "int"}}
    IN  IF S = {} THEN Num(0) ELSE Num(SetMax(S))

SeriesMax(cells) ==
    LET S == {cells[i].v : i \in {j \in 1..Len(cells) : cells[j].t = "int"}}
    IN  IF S = {} THEN Null ELSE Num(SetMax(S))

MeasureSummary(rows) ==
    [total_cases        |-> SeriesMax(Column(rows, "total_cases")),
     total_deaths       |-> SeriesMax(Column(rows, "total_deaths")),
     total_vaccinations |-> SeriesMax(Column(rows, "total_vaccinations"))]

country_specific_summary(country_code) ==
    LET country_data == FilterEq(df, "iso_code", country_code)
    IN  Query(Ret("country_specific_summary", country_code, MeasureSummary(country_data)))

global_summary ==
    Query(Ret("global_summary", Null, MeasureSummary(df)))

continent_summary(continent) ==
    LET continent_data == FilterEq(df, "continent", continent)
    IN  Query(Ret("continent_summary", continent, MeasureSummary(continent_data)))

\* the injective maps of 1..n onto itself
Perms(n) == {p \in [1..n -> 1..n] : \A i, j \in 1..n : i # j => p[i] # p[j]}

\* the elements of a set of numbers, ascending
Ascending(S) ==
    CHOOSE s \in [1..Cardinality(S) -> S] :
        \A i, j \in 1..Cardinality(S) : i < j => s[i] < s[j]

\* the group keys in order of first appearance (groupby(..., sort=False))
RECURSIVE FirstSeen(_)
FirstSeen(cells) ==
    IF cells = <<>> THEN <<>>
    ELSE LET front == FirstSeen(SubSeq(cells, 1, Len(cells) - 1))
             x == cells[Len(cells)]
         IN  IF IsNull(x) \/ x.v \in Range(front) THEN front ELSE Append(front, x.v)

\* df.groupby(column)[measure].max(): one entry per non-null key (dropna=True),
\* entries sorted by key (sort=True), each the skipna maximum of its group
GroupMax_unsorted(rows, c, measure) ==
    LET keys == FirstSeen(Column(rows, c))
    IN  [i \in 1..Len(keys) |->
            [key |-> Str(keys[i]),
             value |-> SeriesMax(Column(FilterEq(rows, c, Str(keys[i])), measure))]]

GroupMax(rows, c, measure) ==
    LET keys == Ascending({rows[i].data[c].v :
                            i \in {j \in 1..Len(rows) : ~IsNull(rows[j].data[c])}})
    IN  [i \in 1..Len(keys) |->
            [key |-> Str(keys[i]),
             value |-> SeriesMax(Column(FilterEq(rows, c, Str(keys[i])), measure))]]

\* Series.dropna() and its complement, both in index order
DropNa(series) == SelectSeq(series, LAMBDA e : ~IsNull(e.value))

OnlyNa(series) == SelectSeq(series, LAMBDA e : IsNull(e.value))

FirstN(series, n) == SubSeq(series, 1, IF n < Len(series) THEN n ELSE Len(series))

\* argsort(kind="mergesort") of the negated values: descending, ties in index order
StableDescending(series) ==
    LET n == Len(series)
        p == CHOOSE q \in Perms(n) : \A i, j \in 1..n : i < j =>
                \/ series[q[i]].value.v > series[q[j]].value.v
                \/ series[q[i]].value.v = series[q[j]].value.v /\ q[i] < q[j]
    IN  [i \in 1..n |-> series[p[i]]]

\* Series.sort_values(ascending=False) with the default kind="quicksort", which
\* is not stable: every descending arrangement of the non-null entries, the
\* NaN entries after them (na_position="last") in index order
QuicksortDescending(series) ==
    LET good == DropNa(series)
        n == Len(good)
    IN  {[i \in 1..n |-> good[p[i]]] \o OnlyNa(series) :
            p \in {q \in Perms(n) : \A i, j \in 1..n : i < j =>
                        good[q[i]].value.v >= good[q[j]].value.v}}

\* Series.nlargest(n, keep="first"): the possible results
nlargest(series, n) ==
    IF n <= 0 THEN {<<>>}
    ELSE IF n >= Len(series) THEN {FirstN(s, n) : s \in QuicksortDescending(series)}
    ELSE {FirstN(FirstN(StableDescending(DropNa(series)), n) \o OnlyNa(series), n)}

highest_countries(op, measure, top_n) ==
    \E out \in nlargest(GroupMax(df, "location", measure), top_n) :
        Query(Ret(op, top_n, out))

highest_case_countries(top_n) ==
    highest_countries("highest_case_countries", "total_cases", top_n)

highest_death_countries(top_n) ==
    highest_countries("highest_death_countries", "total_deaths", top_n)

highest_vaccination_countries(top_n) ==
    highest_countries("highest_vaccination_countries", "total_vaccinations", top_n)


----------------------------------------------------------------------------
(* COVIDDataCleaner: every operation acts in place on self.df and returns  *)
(* None; an exception leaves self.df as it was.                            *)

\* an in-place call that went through, leaving rows r and columns c
Done(op, arg, r, c) ==
    /\ df' = r
    /\ cols' = c
    /\ result' = Ret(op, arg, Null)
    /\ ncalls' = ncalls + 1
    /\ UNCHANGED <<df0, cols0, copy_on_write, net, disk>>

\* an in-place call that raised before changing anything
Failed(op, arg, exc) ==
    /\ result' = Raise(op, arg, exc)
    /\ ncalls' = ncalls + 1
    /\ UNCHANGED <<df, cols, df0, cols0, copy_on_write, net, disk>>

\* a convert_date_column that makes the column when the frame has none
convert_date_column_create ==
    IF "date" \notin cols
    THEN Done("convert_date_column", Null,
              [i \in 1..Len(df) |->
                [df[i] EXCEPT !.data = [c \in cols \cup {"date"} |->
                                          IF c = "date" THEN Null ELSE df[i].data[c]]]],
              cols \cup {"date"})
    ELSE IF \E i \in 1..Len(df) : ~Parseable(df[i].data["date"])
         THEN Failed("convert_date_column", Null, "ValueError")
    ELSE Done("convert_date_column", Null,
              [i \in 1..Len(df) |-> [df[i] EXCEPT !.data["date"] = ToDatetime(@)]],
              cols)

\* self.df['date'] = pd.to_datetime(self.df['date'])
convert_date_column ==
    IF "date" \notin cols THEN Failed("convert_date_column", Null, "KeyError")
    ELSE IF \E i \in 1..Len(df) : ~Parseable(df[i].data["date"])
         THEN Failed("convert_date_column", Null, "ValueError")
    ELSE Done("convert_date_column", Null,
              [i \in 1..Len(df) |-> [df[i] EXCEPT !.data["date"] = ToDatetime(@)]],
              cols)

\* Series.fillna(value) on one column of the frame
FillNa(rows, c, value) ==
    [i \in 1..Len(rows) |->
        [rows[i] EXCEPT !.data[c] = IF IsNull(@) THEN value ELSE @]]

\* the loop of fill_missing_values over its list of columns; a named column
\* that the frame lacks is skipped
RECURSIVE FillColumns(_, _, _, _)
FillColumns(rows, present, columns, value) ==
    IF columns = <<>> THEN rows
    ELSE FillColumns(IF columns[1] \in present
                     THEN FillNa(rows, columns[1], value) ELSE rows,
                     present, Tail(columns), value)

\* self.df[column].fillna(fill_value, inplace=True) fills a Series taken out
\* of the frame: under Copy-on-Write (pandas >= 3) that Series is a copy and
\* the frame keeps its NaN; before, it is a cached view and the frame is filled
fill_missing_values(columns, fill_value) ==
    Done("fill_missing_values", <<columns, fill_value>>,
         IF copy_on_write THEN df ELSE FillColumns(df, cols, columns, fill_value),
         cols)

\* DataFrame.drop(columns=columns, errors='ignore')
DropColumns(rows, present, columns) ==
    [i \in 1..Len(rows) |->
        [rows[i] EXCEPT !.data = [c \in present \ Range(columns) |-> rows[i].data[c]]]]

drop_unnecessary_columns(columns) ==
    Done("drop_unnecessary_columns", columns,
         DropColumns(df, cols, columns), cols \ Range(columns))

\* DataFrame.dropna(how='all')
remove_rows_with_missing_values ==
    Done("remove_rows_with_missing_values", Null,
         SelectSeq(df, LAMBDA r : \E c \in cols : ~IsNull(r.data[c])), cols)

\* DataFrame.reset_index(drop=True)
reset_index ==
    Done("reset_index", Null, [i \in 1..Len(df) |-> [df[i] EXCEPT !.label = i - 1]], cols)

\* DataFrame.drop_duplicates(): keep="first", all columns compared, NaN equal
\* to NaN; a frame with no row or no column is left as it is
RECURSIVE DropDuplicates_last(_)
DropDuplicates_last(rows) ==
    IF rows = <<>> THEN <<>>
    ELSE LET rest == DropDuplicates_last(Tail(rows))
         IN  IF \E i \in 1..Len(rest) : rest[i].data = rows[1].data
             THEN rest ELSE <<rows[1]>> \o rest

\* a drop_duplicates that drops one row a call: the last, when it repeats an
\* earlier one
DropDuplicates_tail(rows) ==
    IF rows # <<>> /\ \E i \in 1..(Len(rows) - 1) : rows[i].data = rows[Len(rows)].data
    THEN SubSeq(rows, 1, Len(rows) - 1)
    ELSE rows

RECURSIVE DropDuplicates(_)
DropDuplicates(rows) ==
    IF rows = <<>> THEN <<>>
    ELSE LET front == DropDuplicates(SubSeq(rows, 1, Len(rows) - 1))
             r == rows[Len(rows)]
         IN  IF \E i \in 1..Len(front) : front[i].data = r.data
             THEN front ELSE Append(front, r)

remove_duplicate_rows ==
    Done("remove_duplicate_rows", Null,
         IF cols = {} THEN df ELSE DropDuplicates(df), cols)

\* Series.replace(old_value, new_value) on one column
Replace(rows, c, old_value, new_value) ==
    [i \in 1..Len(rows) |->
        [rows[i] EXCEPT !.data[c] = IF @ = old_value THEN new_value ELSE @]]

\* a replace_values that assigns the column whether or not the frame has it
replace_values_create(column, old_value, new_value) ==
    IF column \notin cols
    THEN Done("replace_values", <<column, old_value, new_value>>,
              [i \in 1..Len(df) |->
                [df[i] EXCEPT !.data = [c \in cols \cup {column} |->
                                          IF c = column THEN new_value ELSE df[i].data[c]]]],
              cols \cup {column})
    ELSE Done("replace_values", <<column, old_value, new_value>>,
              Replace(df, column, old_value, new_value), cols)

replace_values(column, old_value, new_value) ==
    IF column \notin cols
    THEN Failed("replace_values", <<column, old_value, new_value>>, "KeyError")
    ELSE Done("replace_values", <<column, old_value, new_value>>,
              Replace(df, column, old_value, new_value), cols)

filter_by_value(column, value) ==
    Query(IF column \notin cols THEN Raise("filter_by_value", <<column, value>>, "KeyError")
          ELSE Ret("filter_by_value", <<column, value>>, FilterEq(df, column, value)))

\* the non-null cells of a column can be ordered against each other
Comparable(cells) ==
    \A i, j \in 1..Len(cells) :
        (~IsNull(cells[i]) /\ ~IsNull(cells[j])) => cells[i].t = cells[j].t

NotNa(rows, c) == SelectSeq(rows, LAMBDA r : ~IsNull(r.data[c]))

IsNa(rows, c) == SelectSeq(rows, LAMBDA r : IsNull(r.data[c]))

\* DataFrame.sort_values(by=column, ascending=ascending) with the default
\* kind="quicksort", which is not stable: every arrangement of the rows that
\* is ordered by the column, the rows with NaN after them (na_position="last")
\* in their stored order
SortValues(rows, c, ascending) ==
    LET good == NotNa(rows, c)
        n == Len(good)
    IN  {[i \in 1..n |-> good[p[i]]] \o IsNa(rows, c) :
            p \in {q \in Perms(n) : \A i, j \in 1..n : i < j =>
                IF ascending THEN good[q[i]].data[c].v <= good[q[j]].data[c].v
                             ELSE good[q[i]].data[c].v >= good[q[j]].data[c].v}}

sort_data(column, ascending) ==
    IF column \notin cols THEN Failed("sort_data", <<column, ascending>>, "KeyError")
    ELSE IF ~Comparable(Column(df, column))
         THEN Failed("sort_data", <<column, ascending>>, "TypeError")
    ELSE \E rows \in SortValues(df, column, ascending) :
            Done("sort_data", <<column, ascending>>, rows, cols)

\* DataFrame.dropna(subset=[column])
drop_rows_with_missing_values_in_column(column) ==
    IF column \notin cols
    THEN Failed("drop_rows_with_missing_values_in_column", column, "KeyError")
    ELSE Done("drop_rows_with_missing_values_in_column", column, NotNa(df, column), cols)

\* the int64 a NaT is stored as, below the nanoseconds of every date
iNaT == -1

\* the errors of a cast that cannot be made (which of them depends on the
\* dtype of the column and on the cell that fails)
CastErrors == {"ValueError", "TypeError"}

\* a datetime64[ns] column: Timestamps and NaT only
IsDatetimeColumn(cells) ==
    /\ \E i \in 1..Len(cells) : cells[i].t = "date"
    /\ \A i \in 1..Len(cells) : cells[i].t \in {"date", "null"}

\* float(x) or int(x) of one cell of a column that is not datetime64[ns]
\* cannot be made: a text that is no number, a Timestamp, NaN as an int
CastFails(x, dtype) ==
    \/ x.t \in {"str", "date"}
    \/ x.t = "null" /\ dtype = "int"

\* Series.astype(dtype) where the cast can be made: numbers and, as float,
\* NaN are kept; a Timestamp becomes its nanoseconds
AsType(rows, c) ==
    [i \in 1..Len(rows) |->
        [rows[i] EXCEPT !.data[c] = CASE @.t = "date" -> Num(@.v)
                                      [] @.t = "null" /\ IsDatetimeColumn(Column(rows, c))
                                                      -> Num(iNaT)
                                      [] OTHER        -> @]]

\* a convert_column_type that drops the rows it cannot cast
convert_column_type_coerce(column, dtype) ==
    IF column \notin cols
    THEN Failed("convert_column_type", <<column, dtype>>, "KeyError")
    ELSE Done("convert_column_type", <<column, dtype>>,
              AsType(SelectSeq(df, LAMBDA r : ~CastFails(r.data[column], dtype)), column),
              cols)

\* self.df[column] = self.df[column].astype(dtype), for dtype int or float
convert_column_type(column, dtype) ==
    LET cells == Column(df, column)
        arg == <<column, dtype>>
    IN  IF column \notin cols THEN Failed("convert_column_type", arg, "KeyError")
        ELSE IF IsDatetimeColumn(cells)
        THEN IF dtype = "float" THEN Failed("convert_column_type", arg, "TypeError")
             ELSE IF \E i \in 1..Len(cells) : IsNull(cells[i])
                  THEN \/ Failed("convert_column_type", arg, "ValueError")
                       \/ Done("convert_column_type", arg, AsType(df, column), cols)
             ELSE Done("convert_column_type", arg, AsType(df, column), cols)
        ELSE IF \E i \in 1..Len(cells) : CastFails(cells[i], dtype)
             THEN \E exc \in CastErrors : Failed("convert_column_type", arg, exc)
        ELSE Done("convert_column_type", arg, AsType(df, column), cols)

get_cleaned_data == Query(Ret("get_cleaned_data", Null, df))


----------------------------------------------------------------------------
(* CovidDataScraper and CovidDataDownloader.  requests.get(url) either     *)
(* raises (the host is unreachable, the connection times out) or returns a *)
(* response with a status code and a body.  The body, read as HTML, has or *)
(* has not a <tbody>, whose <tr> rows are sequences of <td> texts, and a   *)
(* number of maincounter-number <div>s.                                    *)

RowStart == 8

RowEnd == 229

\* the cell indexes fetch_data reads off a row: cols[1:10], cols[12], cols[14]
FieldCells == <<1, 2, 3, 4, 5, 6, 7, 8, 9, 12, 14>>

\* a network call that does not change the frame
Fetch(r, d) ==
    /\ result' = r
    /\ disk' = d
    /\ ncalls' = ncalls + 1
    /\ UNCHANGED <<df, cols, df0, cols0, copy_on_write, net>>

\* requests.get raises requests.exceptions.ConnectionError / Timeout
GetRaises(op, arg) ==
    RaiseWith(op, arg, IF net.kind = "timeout" THEN "Timeout" ELSE "ConnectionError",
              [cause |-> net.kind])

\* a Python slice seq[lo:hi] of a list
Slice(seq, lo, hi) == SubSeq(seq, lo + 1, IF hi < Len(seq) THEN hi ELSE Len(seq))

\* cols[1:10] + [cols[12]] + [cols[14]], for a row that has cols[14]
Record(cells) == [k \in 1..Len(FieldCells) |-> cells[FieldCells[k] + 1]]

\* the loop of fetch_data over the selected rows: the records, or the
\* IndexError of the first row without cols[12] or cols[14]
RowsToData(world_data) ==
    IF \E i \in 1..Len(world_data) : Len(world_data[i]) <= 14
    THEN [error |-> TRUE, data |-> <<>>]
    ELSE [error |-> FALSE, data |-> [i \in 1..Len(world_data) |-> Record(world_data[i])]]

\* requests.get(self.url).text is read whatever the status code
fetch_data ==
    IF net.kind # "response" THEN Fetch(GetRaises("fetch_data", Null), disk)
    ELSE IF ~net.body.has_tbody
         THEN Fetch(RaiseWith("fetch_data", Null, "AttributeError",
                              [text |-> "'NoneType' object has no attribute 'find_all'"]), disk)
    ELSE LET world_data == Slice(net.body.rows, RowStart, RowEnd)
             got == RowsToData(world_data)
         IN  IF got.error
             THEN Fetch(RaiseWith("fetch_data", Null, "IndexError",
                                  [text |-> "list index out of range"]), disk)
             ELSE Fetch(Ret("fetch_data", Null, got.data), disk)

get_global_stats ==
    IF net.kind # "response" THEN Fetch(GetRaises("get_global_stats", Null), disk)
    ELSE IF Len(net.body.counters) < 3
         THEN Fetch(RaiseWith("get_global_stats", Null, "IndexError",
                              [text |-> "list index out of range"]), disk)
    ELSE Fetch(Ret("get_global_stats", Null,
                   [total_cases     |-> net.body.counters[1],
                    total_deaths    |-> net.body.counters[2],
                    total_recovered |-> net.body.counters[3]]), disk)

\* the file name taken from the url: self.url.split('/')[-1]
UrlFileName == "owid-covid-data.csv"

download_covid_data(output_filename) ==
    IF net.kind # "response"
    THEN Fetch(GetRaises("download_covid_data", output_filename), disk)
    ELSE IF net.status = 200
         THEN LET name == IF output_filename = "" THEN UrlFileName ELSE output_filename
              IN  Fetch(Ret("download_covid_data", output_filename, TRUE),
                        [f \in (DOMAIN disk) \cup {name} |->
                            IF f = name THEN net.body ELSE disk[f]])
    ELSE Fetch(Ret("download_covid_data", output_filename, FALSE), disk)

----------------------------------------------------------------------------
(* What the network holds for a call: a failure, or a response whose body  *)
(* has a table of header rows followed by data rows.  The j-th cell of row *)
(* i holds the text 100 * i + j (i, j counted from 0).                     *)

StatusCodes == {200, 204, 404, 500}

CellCounts == {9, 12, 14, 15, 16}

Cells(i, n) == [j \in 1..n |-> 100 * (i - 1) + (j - 1)]

Table(header, counts) ==
    [i \in 1..(header + Len(counts)) |->
        IF i <= header THEN Cells(i, 15) ELSE Cells(i, counts[i - header])]

Bodies ==
    {[has_tbody |-> TRUE, rows |-> Table(h, counts), counters |-> c] :
        h \in {0, RowStart}, counts \in SeqsUpTo(CellCounts, MaxDataRows),
        c \in {<<>>, <<1, 2, 3>>}}
    \cup {[has_tbody |-> FALSE, rows |-> <<>>, counters |-> <<>>]}

ScrapeInit ==
    /\ df = <<>>
    /\ cols = {}
    /\ df0 = df
    /\ cols0 = cols
    /\ copy_on_write = FALSE
    /\ net \in {[kind |-> "unreachable"], [kind |-> "timeout"]}
               \cup {[kind |-> "response", status |-> st, body |-> b] :
                        st \in StatusCodes, b \in Bodies}
    /\ disk = <<>>
    /\ result = NoResult
    /\ ncalls = 0

ScrapeNext ==
    \/ Fresh /\ fetch_data
    \/ Fresh /\ get_global_stats
    \/ Fresh /\ \E output_filename \in {"", "covid.csv"} : download_covid_data(output_filename)

SpecScrape == ScrapeInit /\ [][ScrapeNext]_vars


----------------------------------------------------------------------------
(* Datasets the summary queries are run on: OWID-style rows.  A row is an  *)
(* observation o of country k.  The three measure columns of observation o *)
(* are a cyclic shift of (NaN, 0, 1), so that every column takes every     *)
(* value, in every order, over the datasets drawn.                         *)

SummaryCols == {"iso_code", "continent", "location", "date",
                "total_cases", "total_deaths", "total_vaccinations"}

Measures == {"total_cases", "total_deaths", "total_vaccinations"}

Keys == {1, 2, 3}

Observations == {0, 1, 2}

Cyc(i) == CASE i % 3 = 0 -> Null
            [] i % 3 = 1 -> Num(0)
            [] OTHER     -> Num(1)

SummaryData(k, o) ==
    [c \in SummaryCols |->
        CASE c = "iso_code"           -> Str(k)
          [] c = "location"           -> Str(k)
          [] c = "continent"          -> Str((k + 1) \div 2)
          [] c = "date"               -> Str(o + 1)
          [] c = "total_cases"        -> Cyc(o)
          [] c = "total_deaths"       -> Cyc(o + 1)
          [] c = "total_vaccinations" -> Cyc(o + 2)]

SummaryKinds == {SummaryData(k, o) : k \in Keys, o \in Observations}

\* DataSummary(df) on a dataset of at most n rows
SummaryInitUpTo(n) ==
    /\ \E datas \in SeqsUpTo(SummaryKinds, n) : df = Frame(datas)
    /\ cols = SummaryCols
    /\ df0 = df
    /\ cols0 = cols
    /\ copy_on_write = FALSE
    /\ net = NoNet
    /\ disk = <<>>
    /\ result = NoResult
    /\ ncalls = 0

SummaryInit == SummaryInitUpTo(MaxRows)

FrameInit == SummaryInitUpTo(MaxFrameRows)

CountryNext ==
    \/ Fresh /\ \E k \in Keys : country_specific_summary(Str(k))
    \/ Fresh /\ \E k \in {1, 2} : continent_summary(Str(k))
    \/ Fresh /\ global_summary

SpecCountry == SummaryInit /\ [][CountryNext]_vars

TopNArgs == (-1)..(MaxRows + 1)

TopNNext ==
    \/ Fresh /\ \E n \in TopNArgs : highest_case_countries(n)
    \/ Fresh /\ \E n \in TopNArgs : highest_death_countries(n)
    \/ Fresh /\ \E n \in TopNArgs : highest_vaccination_countries(n)

SpecTopN == SummaryInit /\ [][TopNNext]_vars

SummaryNext ==
    \/ MoreCalls /\ get_basic_info
    \/ MoreCalls /\ get_missing_values_info
    \/ MoreCalls /\ \E column_names \in {{"location"}, {"iso_code", "continent"}} :
                     get_unique_values_info(column_names)
    \/ MoreCalls /\ \E k \in Keys : country_specific_summary(Str(k))
    \/ MoreCalls /\ \E k \in {1, 2} : continent_summary(Str(k))
    \/ MoreCalls /\ global_summary
    \/ MoreCalls /\ date_range
    \/ MoreCalls /\ \E n \in TopNArgs : highest_case_countries(n)
    \/ MoreCalls /\ \E n \in TopNArgs : highest_death_countries(n)
    \/ MoreCalls /\ \E n \in TopNArgs : highest_vaccination_countries(n)
    \/ MoreCalls /\ \E k \in Keys, m \in Measures : trend_over_time(Str(k), m)

SpecSummary == FrameInit /\ [][SummaryNext]_vars

----------------------------------------------------------------------------
(* Datasets the cleaner is constructed with: some of the columns date (raw *)
(* texts, NaN) and total_cases (numbers, NaN), under the default           *)
(* RangeIndex; new_cases is a column name no dataset has.                  *)

CleanCols == {"date", "total_cases"}

ColumnNames == CleanCols \cup {"new_cases"}

CleanValues(c) == IF c = "date" THEN {Null, Str(1), Str(2)}
                                ELSE {Null, Num(0), Num(1)}

CleanKinds(present) ==
    {f \in [present -> UNION {CleanValues(c) : c \in CleanCols}] :
        \A c \in present : f[c] \in CleanValues(c)}

ColumnLists == {<<"date">>, <<"total_cases", "new_cases">>, <<"new_cases">>,
                <<"new_cases", "date", "total_cases">>}

FillValues == {Num(0), Num(1)}

Replacements == {<<Num(0), Num(1)>>, <<Null, Num(0)>>, <<Str(1), Str(2)>>}

\* COVIDDataCleaner(dataframe) on a dataset of at most n rows
CleanerInitUpTo(n) ==
    /\ \E present \in (SUBSET CleanCols) \ {{}} :
        /\ cols = present
        /\ \E datas \in SeqsUpTo(CleanKinds(present), n) : df = Frame(datas)
    /\ df0 = df
    /\ cols0 = cols
    /\ copy_on_write \in BOOLEAN
    /\ net = NoNet
    /\ disk = <<>>
    /\ result = NoResult
    /\ ncalls = 0

CleanerInit == CleanerInitUpTo(MaxRows)

CleanerFrameInit == CleanerInitUpTo(MaxFrameRows)

CleanOnceNext ==
    \/ Fresh /\ convert_date_column
    \/ Fresh /\ \E columns \in ColumnLists, v \in FillValues : fill_missing_values(columns, v)
    \/ Fresh /\ \E columns \in ColumnLists : drop_unnecessary_columns(columns)
    \/ Fresh /\ remove_rows_with_missing_values
    \/ Fresh /\ reset_index
    \/ Fresh /\ remove_duplicate_rows
    \/ Fresh /\ \E c \in ColumnNames, r \in Replacements : replace_values(c, r[1], r[2])
    \/ Fresh /\ \E c \in ColumnNames, v \in {Num(0), Str(1)} : filter_by_value(c, v)
    \/ Fresh /\ \E c \in ColumnNames, ascending \in BOOLEAN : sort_data(c, ascending)
    \/ Fresh /\ \E c \in ColumnNames : drop_rows_with_missing_values_in_column(c)
    \/ Fresh /\ get_cleaned_data

SpecCleanOnce == CleanerInit /\ [][CleanOnceNext]_vars

\* remove_duplicate_rows called again and again on one cleaner
DedupNext ==
    \/ MoreCalls /\ remove_duplicate_rows

SpecDedup == CleanerInit /\ [][DedupNext]_vars

\* the dtypes asked of convert_column_type
Dtypes == {"int", "float"}

\* any sequence of the in-place operations on one cleaner
CleanerNext ==
    \/ MoreCalls /\ convert_date_column
    \/ MoreCalls /\ fill_missing_values(<<"total_cases", "new_cases">>, Num(0))
    \/ MoreCalls /\ \E columns \in {<<"total_cases", "new_cases">>, <<"date">>} :
                     drop_unnecessary_columns(columns)
    \/ MoreCalls /\ remove_rows_with_missing_values
    \/ MoreCalls /\ reset_index
    \/ MoreCalls /\ remove_duplicate_rows
    \/ MoreCalls /\ \E c \in {"date", "new_cases"} : replace_values(c, Str(1), Str(2))
    \/ MoreCalls /\ \E c \in {"total_cases", "new_cases"} : sort_data(c, TRUE)
    \/ MoreCalls /\ \E c \in {"total_cases", "new_cases"} :
                     drop_rows_with_missing_values_in_column(c)
    \/ MoreCalls /\ \E c \in ColumnNames, dtype \in Dtypes : convert_column_type(c, dtype)

SpecCleaner == CleanerFrameInit /\ [][CleanerNext]_vars

SchemaNext ==
    \/ MoreCalls /\ \E v \in FillValues :
                     fill_missing_values(<<"new_cases", "date", "total_cases">>, v)
    \/ MoreCalls /\ \E c \in ColumnNames, r \in {<<Null, Num(0)>>, <<Str(1), Str(2)>>} :
                     replace_values(c, r[1], r[2])
    \/ MoreCalls /\ \E c \in ColumnNames, ascending \in BOOLEAN : sort_data(c, ascending)
    \/ MoreCalls /\ remove_rows_with_missing_values

SpecSchema == CleanerFrameInit /\ [][SchemaNext]_vars

----------------------------------------------------------------------------
(* C1: country_specific_summary returns, for each of total_cases,          *)
(* total_deaths and total_vaccinations, the maximum of the non-null values *)
(* of that column over the rows whose iso_code matches, and null (never 0) *)
(* when there is no matching row or every matching row is null there.      *)

MatchingValues(code, m) ==
    {df[i].data[m].v : i \in {j \in 1..Len(df) :
        df[j].data["iso_code"] = code /\ df[j].data[m].t = "int"}}

C1_CountrySummaryIsMaxOrNull ==
    result.op = "country_specific_summary" =>
        \A m \in Measures :
            LET M == MatchingValues(result.arg, m)
            IN  /\ M = {} => result.out[m] = Null
                /\ M # {} => /\ result.out[m].t = "int"
                             /\ result.out[m].v \in M
                             /\ \A x \in M : x <= result.out[m].v

\* two matching rows with different total_cases, a null skipped in
\* total_deaths, and another country in the dataset
C1_Witness ==
    /\ result.op = "country_specific_summary"
    /\ Cardinality(MatchingValues(result.arg, "total_cases")) = 2
    /\ result.out["total_cases"] = Num(1)
    /\ \E i \in 1..Len(df) : /\ df[i].data["iso_code"] = result.arg
                              /\ IsNull(df[i].data["total_deaths"])
    /\ result.out["total_deaths"] = Num(1)
    /\ \E i \in 1..Len(df) : df[i].data["iso_code"] # result.arg

\* a country code with no row at all: every measure is null
C1_WitnessNoRows ==
    /\ result.op = "country_specific_summary"
    /\ FilterEq(df, "iso_code", result.arg) = <<>>
    /\ Len(df) > 0
    /\ \A m \in Measures : result.out[m] = Null

----------------------------------------------------------------------------
(* What a top-n query is asked about, read off the dataset itself. *)

TopNOps == {"highest_case_countries", "highest_death_countries",
            "highest_vaccination_countries"}

MeasureOf(op) == CASE op = "highest_case_countries"  -> "total_cases"
                   [] op = "highest_death_countries" -> "total_deaths"
                   [] OTHER                          -> "total_vaccinations"

Locations == {df[i].data["location"] : i \in 1..Len(df)} \ {Null}

\* the per-location maximum as a rank: -1 when the location has no value
LocationRank(l, m) ==
    LET M == {df[i].data[m].v : i \in {j \in 1..Len(df) :
                df[j].data["location"] = l /\ df[j].data[m].t = "int"}}
    IN  IF M = {} THEN -1 ELSE SetMax(M)

Rank(x) == IF IsNull(x) THEN -1 ELSE x.v

FirstRowOf(l) == SetMin({i \in 1..Len(df) : df[i].data["location"] = l})

\* the n locations with the largest per-location maximum, descending
TopNLargestDescending ==
    LET out == result.out
        m == MeasureOf(result.op)
        n == result.arg
        shown == {out[i].key : i \in 1..Len(out)}
    IN  /\ Len(out) = IF n < Cardinality(Locations) THEN n ELSE Cardinality(Locations)
        /\ shown \subseteq Locations
        /\ Cardinality(shown) = Len(out)
        /\ \A i \in 1..Len(out) : Rank(out[i].value) = LocationRank(out[i].key, m)
        /\ \A i, j \in 1..Len(out) : i < j => Rank(out[i].value) >= Rank(out[j].value)
        /\ \A l \in Locations \ shown : \A i \in 1..Len(out) :
                Rank(out[i].value) >= LocationRank(l, m)

(* C2, as stated: top_n returns the n locations with the largest           *)
(* per-location maximum, descending, and of two locations with equal       *)
(* maxima the one whose first row appears earlier in the dataset comes     *)
(* first.                                                                  *)
C2_TiesByFirstRow ==
    (result.op \in TopNOps /\ result.arg > 0) =>
        /\ TopNLargestDescending
        /\ \A i, j \in 1..Len(result.out) :
                (i < j /\ Rank(result.out[i].value) = Rank(result.out[j].value))
                    => FirstRowOf(result.out[i].key) < FirstRowOf(result.out[j].key)

(* C2, amended: top_n returns the n locations (all of them when there are  *)
(* fewer) with the largest per-location maximum, descending, a location    *)
(* with no value ranking last; when n is smaller than the number of        *)
(* locations, of two locations with equal maxima the one whose name sorts  *)
(* first comes first, both within the result and against the locations     *)
(* left out.                                                               *)
C2_TiesByLocationName ==
    (result.op \in TopNOps /\ result.arg > 0) =>
        /\ TopNLargestDescending
        /\ result.arg < Cardinality(Locations) =>
            /\ \A i, j \in 1..Len(result.out) :
                (i < j /\ Rank(result.out[i].value) = Rank(result.out[j].value))
                    => result.out[i].key.v < result.out[j].key.v
            /\ \A l \in Locations \ {result.out[i].key : i \in 1..Len(result.out)} :
                \A i \in 1..Len(result.out) :
                    Rank(result.out[i].value) = LocationRank(l, MeasureOf(result.op))
                        => result.out[i].key.v < l.v

\* three locations, the first row's location sorting last, n = 2, the two
\* shown locations tied and in name order although the later one came first
C2_Witness ==
    /\ result.op = "highest_case_countries"
    /\ result.arg = 2
    /\ Cardinality(Locations) = 3
    /\ Len(result.out) = 2
    /\ result.out[1].value = Num(1)
    /\ result.out[2].value = Num(1)
    /\ FirstRowOf(result.out[2].key) < FirstRowOf(result.out[1].key)

(* C3, as stated: top_n called with n = 0 or n < 0 fails with              *)
(* InvalidArgumentError (in Python, a ValueError) instead of returning a   *)
(* result.                                                                 *)
InvalidArgumentErrors == {"InvalidArgumentError", "ValueError"}

C3_NonPositiveNFails ==
    (result.op \in TopNOps /\ result.arg <= 0) => result.exc \in InvalidArgumentErrors


----------------------------------------------------------------------------
(* Rows are told apart by their index label, which no operation but        *)
(* reset_index rewrites and which is unique in the dataset constructed.    *)

Labels(rows) == {rows[i].label : i \in 1..Len(rows)}

PosOf(rows, l) == CHOOSE i \in 1..Len(rows) : rows[i].label = l

\* rows kept their stored order: the labels of r appear in the order of r0
SameRelativeOrder(r, r0) ==
    \A a, b \in Labels(r) \cap Labels(r0) :
        PosOf(r, a) < PosOf(r, b) <=> PosOf(r0, a) < PosOf(r0, b)

(* C4: remove_duplicate_rows removes exactly the rows that are             *)
(* value-identical across all columns to an earlier row: the first of each *)
(* group of identical rows stays, rows that differ in a column all stay,   *)
(* and the rows that stay keep their relative order.                       *)
C4_DeduplicateKeepsFirst ==
    result.op = "remove_duplicate_rows" =>
        LET first == {i \in 1..Len(df0) :
                        \A j \in 1..(i - 1) : df0[j].data # df0[i].data}
        IN  /\ Labels(df) = {df0[i].label : i \in first}
            /\ Len(df) = Cardinality(first)
            /\ \A i \in 1..Len(df) : df[i] = df0[PosOf(df0, df[i].label)]
            /\ SameRelativeOrder(df, df0)
            /\ cols = cols0

\* three rows: the second differs from the first in one column only and
\* stays, the third repeats the first and goes
C4_Witness ==
    /\ result.op = "remove_duplicate_rows"
    /\ cols0 = CleanCols
    /\ Len(df0) = 3
    /\ df0[3].data = df0[1].data
    /\ df0[2].data["date"] = df0[1].data["date"]
    /\ df0[2].data["total_cases"] # df0[1].data["total_cases"]
    /\ df = <<df0[1], df0[2]>>

(* C5, as stated: sort_data is a stable sort: in either direction, any two *)
(* rows with equal values in the sort column appear after the sort in the  *)
(* relative order they had before it.                                      *)
C5_SortIsStable ==
    (result.op = "sort_data" /\ result.exc = "none") =>
        \A i, j \in 1..Len(df0) :
            (i < j /\ df0[i].data[result.arg[1]] = df0[j].data[result.arg[1]])
                => PosOf(df, df0[i].label) < PosOf(df, df0[j].label)

(* C7, as stated: fill_missing_values and drop_unnecessary_columns never   *)
(* fail because a named column is absent: an absent name is skipped, the   *)
(* named columns that are present are still processed (nulls replaced by   *)
(* the fill value, or the column removed), and every column not named is   *)
(* left unchanged.                                                         *)
C7_AbsentColumnsSkipped ==
    /\ result.op = "fill_missing_values" =>
        /\ result.exc = "none"
        /\ cols = cols0
        /\ Len(df) = Len(df0)
        /\ \A i \in 1..Len(df) : \A c \in cols0 :
            df[i].data[c] = IF c \in Range(result.arg[1]) /\ IsNull(df0[i].data[c])
                            THEN result.arg[2] ELSE df0[i].data[c]
    /\ result.op = "drop_unnecessary_columns" =>
        /\ result.exc = "none"
        /\ cols = cols0 \ Range(result.arg)
        /\ Len(df) = Len(df0)
        /\ \A i \in 1..Len(df) :
            /\ DOMAIN df[i].data = cols
            /\ \A c \in cols : df[i].data[c] = df0[i].data[c]

(* C8: fill_missing_values, replace_values, sort_data and                  *)
(* remove_rows_with_missing_values never change the column set: after any  *)
(* sequence of them the columns, of the frame and of every row, are those  *)
(* of the dataset constructed.                                             *)
C8_SchemaPreserved ==
    /\ cols = cols0
    /\ \A i \in 1..Len(df) : DOMAIN df[i].data = cols0

\* two of the four operations went through and changed the rows
C8_Witness ==
    /\ ncalls = 2
    /\ result.op = "sort_data"
    /\ result.exc = "none"
    /\ Len(df) = 1
    /\ Len(df0) = 2


----------------------------------------------------------------------------
(* The rows fetch_data selects, and the first of them (as an index into    *)
(* the table, from 0) with fewer cells than the fields read need.          *)

RequiredCells == 15

Selected == {i \in 1..Len(net.body.rows) : i > RowStart /\ i <= RowEnd}

ShortRows == {i \in Selected : Len(net.body.rows[i]) < RequiredCells}

ExtractErrors == {"ExtractError"}

(* C9, as stated: if a row in the selected row range yields fewer cells    *)
(* than the expected columns require, fetch_data fails with ExtractError   *)
(* naming that row's index and the shortfall; no record is emitted for the *)
(* row, and it is neither dropped silently nor padded.                     *)
C9_ShortRowRaisesExtractError ==
    (/\ result.op = "fetch_data"
     /\ net.kind = "response"
     /\ net.body.has_tbody
     /\ ShortRows # {}) =>
        /\ result.exc \in ExtractErrors
        /\ \E i \in ShortRows :
            result.out = [row |-> i - 1,
                          missing |-> RequiredCells - Len(net.body.rows[i])]

(* C10, as stated: every fetch that ends in a non-success HTTP status, an  *)
(* unreachable network or a timeout is surfaced to the caller as a single  *)
(* FetchError carrying the underlying cause and the status code; after a   *)
(* non-success response the scraper does not parse the body and the        *)
(* downloader does not report success.                                     *)
FetchErrors == {"FetchError", "HTTPError", "ConnectionError", "Timeout"}

FetchOps == {"fetch_data", "get_global_stats", "download_covid_data"}

C10_FailedFetchRaisesFetchError ==
    (result.op \in FetchOps /\ (net.kind # "response" \/ net.status \div 100 # 2)) =>
        /\ result.exc \in FetchErrors
        /\ net.kind = "response" => result.out = [status |-> net.status]


----------------------------------------------------------------------------
(* The column an operation requires: 'date' for convert_date_column, the   *)
(* named column for sort_data.                                             *)
RequiredColumn ==
    IF result.op = "convert_date_column" THEN "date" ELSE result.arg[1]

\* the error for an absent column (in pandas, a KeyError naming the column)
ColumnNotFoundErrors == {"ColumnNotFoundError", "KeyError"}

(* C11: a cleaner operation that requires its column (convert_date_column  *)
(* on 'date', sort_data on the column named) fails with the error for an   *)
(* absent column when the dataset has no such column, and the failed call  *)
(* leaves the dataset (rows, order, labels, cells, columns) unchanged.     *)
C11_AbsentColumnFails ==
    (/\ result.op \in {"convert_date_column", "sort_data"}
     /\ RequiredColumn \notin cols0) =>
        /\ result.exc \in ColumnNotFoundErrors
        /\ df = df0
        /\ cols = cols0

\* sort_data named a column the dataset, which has rows out of order in its
\* other column, does not have
C11_Witness ==
    /\ result.op = "sort_data"
    /\ result.arg[1] = "date"
    /\ cols0 = {"total_cases"}
    /\ Len(df0) = 2
    /\ df0[1].data["total_cases"] = Num(1)
    /\ df0[2].data["total_cases"] = Num(0)
    /\ result.exc = "KeyError"

\* convert_date_column on a dataset without a date column
C11_WitnessDate ==
    /\ result.op = "convert_date_column"
    /\ "date" \notin cols0
    /\ Len(df0) > 0
    /\ result.exc = "KeyError"


----------------------------------------------------------------------------
\* the (date, value) pair of row i of the dataset for a measure
PairOf(i, m) == [date |-> df0[i].data["date"], value |-> df0[i].data[m]]

\* the rows of the dataset whose iso_code is the code
MatchingRows(code) == {i \in 1..Len(df0) : df0[i].data["iso_code"] = code}

\* the result holds each pair as often as the matching rows do
TrendPairsOfMatchingRows ==
    (result.op = "trend_over_time" /\ result.exc = "none") =>
        LET out == result.out
            M == MatchingRows(result.arg[1])
            m == result.arg[2]
        IN  /\ Len(out) = Cardinality(M)
            /\ \A i \in M :
                  Cardinality({j \in 1..Len(out) : out[j] = PairOf(i, m)})
                    = Cardinality({k \in M : PairOf(k, m) = PairOf(i, m)})

(* C12, as stated: trend_over_time(iso_code, measure) returns exactly the  *)
(* (date, value) pairs of the rows matching iso_code, ordered ascending by *)
(* date, for every dataset, one whose rows are not stored in date order    *)
(* included.                                                               *)
C12_TrendAscendingByDate ==
    /\ TrendPairsOfMatchingRows
    /\ (result.op = "trend_over_time" /\ result.exc = "none") =>
          \A i, j \in 1..Len(result.out) :
              i < j => result.out[i].date.v <= result.out[j].date.v


----------------------------------------------------------------------------
(* C13: remove_duplicate_rows is idempotent: a call that follows another   *)
(* call of it leaves the dataset as the first call left it (same rows,     *)
(* same order, same labels, same columns).                                 *)
C13_DeduplicateIdempotent ==
    [][(/\ result.op = "remove_duplicate_rows"
        /\ result'.op = "remove_duplicate_rows"
        /\ ncalls' = ncalls + 1) => (df' = df /\ cols' = cols)]_vars

\* the second call in a row, on a dataset of three equal rows that the first
\* call cut to one
C13_Witness ==
    /\ ncalls = 2
    /\ result.op = "remove_duplicate_rows"
    /\ Len(df0) = 3
    /\ Len(df) = 1
    /\ df[1] = df0[1]


----------------------------------------------------------------------------
\* the operations that drop rows
RowDroppingOps == {"remove_rows_with_missing_values", "remove_duplicate_rows",
                   "drop_rows_with_missing_values_in_column"}

(* C14: under any sequence of the in-place operations of the cleaner no    *)
(* call adds a row, no call adds a column (so the columns are always among *)
(* those of the dataset the cleaner was constructed with), only            *)
(* drop_unnecessary_columns removes a column and only the three            *)
(* row-dropping operations remove a row.                                   *)
C14_CleanerInvariants ==
    [][(ncalls' = ncalls + 1) =>
          /\ Len(df') <= Len(df)
          /\ cols' \subseteq cols
          /\ cols' \subseteq cols0
          /\ \A i \in 1..Len(df') : DOMAIN df'[i].data = cols'
          /\ cols' # cols => result'.op = "drop_unnecessary_columns"
          /\ Len(df') < Len(df) => result'.op \in RowDroppingOps]_vars

\* a column was dropped, then a row of what was left
C14_Witness ==
    /\ ncalls = 2
    /\ result.op = "drop_rows_with_missing_values_in_column"
    /\ cols0 = {"date", "total_cases"}
    /\ cols = {"total_cases"}
    /\ Len(df0) = 2
    /\ Len(df) = 1

\* a cast went through on a dataset that kept its rows and columns
C14_WitnessCast ==
    /\ result.op = "convert_column_type"
    /\ result.exc = "none"
    /\ Len(df) = 2
    /\ cols = cols0


====
